---- MODULE Spec2Model ----
(***************************************************************************)
(* A model of mininet/node.py: the per-node command channel (sendCmd,      *)
(* monitor, waitOutput, read, readline), the interface and link tables     *)
(* (newPort, addIntf, linkTo, unlinkFrom, deleteIntf, ..., Host.addvlan),  *)
(* IP() and MAC(), the registry of descriptors, start(), stop() and       *)
(* restart() of the switch and controller classes, and the network devices *)
(* that makeIntfPair, moveIntf and 'ip link del' make, move and end.       *)
(*                                                                         *)
(* Bytes of the channel are records [v, k, t]: v is the byte value the     *)
(* program sees; k (the serial of the line that produced the byte) and t   *)
(* (what the byte is: "echo", "hs", "pid", "out", "prompt") are history    *)
(* labels which no definition that models the code reads.                  *)
(***************************************************************************)
EXTENDS Integers, Sequences, FiniteSets, TLC

\* ------------------------------------------------------------- bounds
MaxSerial == 2      \* sendCmd calls that get past the assertion
MaxOut == 1         \* bytes of output of one command
MaxStream == 3      \* bytes of the raw stream in the read() runs
MaxN == 3           \* largest byte count asked of read() in those runs
MaxPort == 1        \* largest port number of the link runs
MaxIntfs == 3       \* most interfaces, over all nodes, in the link runs
MaxVlan == 1        \* most vlan tags on one interface name
MaxLive == 1        \* sendCmd calls in the runs with a fair shell
MaxAsk == 1         \* addresses stored by IP() and MAC()
MaxStops == 2       \* stop() calls counted by OVSKernelSwitchNew.numSwitch

\* ---------------------------------------------------- program constants
DEL == 127          \* chr( 127 ): the prompt PS1, the sentinel
SOH == 1            \* chr( 1 ): starts the PID marker
CR == 13
LF == 10
ReadMax == 1024     \* read( 1024 )
None == -1          \* None, where a number is expected
SWITCH_PORT_BASE == 1
NODE_PORT_BASE == 0 \* Node.portBase

VARIABLES
    \* the node's command channel (Node.__init__)
    serial, readbuf, waiting, lastCmd, lastPid,
    \* the caller: where it is, and the locals of the call in progress
    pc, buf, output, ret, err, lastOp,
    \* the pty: bytes the shell will still emit, bytes emitted and unread
    pend, avail,
    \* history: the last command written (whether monitor was called directly
    \* since, whether monitor has read its prompt, whether waitOutput collected
    \* the command before it), the command a waitOutput collects, the command
    \* that was outstanding when a sendCmd was last rejected
    disp, retFor, rejAt,
    \* history of the read() runs: the bytes os.read has handed over, the
    \* results of the calls one after the other, the byte count last asked for
    recv, deliv, asked,
    \* the nodes' tables: port -> interface, interface -> port, interface ->
    \* (peer node, peer interface); the class of the switch
    intfs, ports, connection, backend,
    \* history: the last table operation, its arguments and its outcome
    last,
    \* the switch's forwarding object and processes as the commands run so far
    \* leave them, and UserSwitch.saved_contr
    sw,
    \* the nodes whose shell process lives
    alive,
    \* each node's execed, and the node whose command channel the variables
    \* of the channel are
    execed, owner,
    \* each node's ips and macs: interface -> address
    ips, macs,
    \* history: what the last operation dispatched and ran, in order
    ran,
    \* the class-wide maps of file descriptors to nodes
    inToNode, outToNode,
    \* history: the ports newPort() has returned to linkTo, of each node
    allocated,
    \* the network devices made by makeIntfPair that exist: <<namespace, name>>,
    \* the namespace "root" or the one of a node's shell (mnexec -n); followed
    \* in the runs of stop() and the devices only
    devs

chanVars == <<serial, readbuf, waiting, lastCmd, lastPid, pc, buf, output,
              ret, err, lastOp, pend, avail, disp, retFor, rejAt>>
readVars == <<recv, deliv, asked>>
linkVars == <<intfs, ports, connection, backend, last, sw, alive, execed, owner,
              ips, macs, ran, inToNode, outToNode, allocated, devs>>
vars == <<chanVars, readVars, linkVars>>

\* ------------------------------------------------------------ sequences
Min(a, b) == IF a < b THEN a ELSE b
Take(s, n) == SubSeq(s, 1, Min(n, Len(s)))
Drop(s, n) == SubSeq(s, Min(n, Len(s)) + 1, Len(s))
HasVal(s, x) == \E i \in DOMAIN s : s[i].v = x
\* str.find: the first position of x, 0 when absent
FindVal(s, x) ==
    IF HasVal(s, x)
    THEN CHOOSE i \in DOMAIN s : s[i].v = x /\ \A j \in 1..(i - 1) : s[j].v # x
    ELSE 0
Vals(s) == [i \in DOMAIN s |-> s[i].v]
RECURSIVE SeqsUpTo(_, _)
SeqsUpTo(S, n) ==
    IF n = 0 THEN {<<>>}
    ELSE SeqsUpTo(S, n - 1) \cup
         {Append(s, x) : s \in {t \in SeqsUpTo(S, n - 1) : Len(t) = n - 1}, x \in S}

B(v, k, t) == [v |-> v, k |-> k, t |-> t]

\* ------------------------------------------------------------ the shell
\* The line '__ n __' that echo prints, which the handshake looks for, and the
\* tty's echo of a typed line, each as one symbol: no byte value of either is a
\* control byte or a digit next to one.
Mark(n) == 1000 + n
EchoOf(n) == 2000 + n
PidText == <<52>>
IsDigit(x) == x \in 48..57

\* 'echo __   n   __\n' typed at the prompt: the tty echoes the line (three
\* spaces, so the echo is no match), echo prints '__ n __', the prompt follows.
HsResponse(n) ==
    <<B(EchoOf(0), n, "echo"), B(Mark(n), n, "hs"), B(DEL, n, "hsprompt")>>

\* The command line typed at the prompt: its echo, the PID marker when it runs
\* under mnexec -p, its output, then the prompt.
CmdResponse(c, n) ==
    <<B(EchoOf(n), n, "echo")>>
    \o (IF c.mnexec
        THEN <<B(SOH, n, "pid")>> \o [i \in DOMAIN PidText |-> B(PidText[i], n, "pid")]
             \o <<B(CR, n, "pid"), B(LF, n, "pid")>>
        ELSE <<>>)
    \o [i \in DOMAIN c.out |-> B(c.out[i], n, "out")]
    \o <<B(DEL, n, "prompt")>>

\* ------------------------------------------------------------ Node.read
\* os.read blocks while the pty holds nothing
ReadBlocks(n) == Len(readbuf) < n /\ avail = <<>>
ReadData(n) == IF Len(readbuf) < n THEN Take(avail, n - Len(readbuf)) ELSE <<>>
ReadFilled(n) == readbuf \o ReadData(n)
ReadResult(n) ==
    IF n >= Len(ReadFilled(n)) THEN ReadFilled(n) ELSE SubSeq(ReadFilled(n), 1, n)
ReadRestDrop(n) == <<>>
ReadRest(n) ==
    IF n >= Len(ReadFilled(n)) THEN <<>>
    ELSE SubSeq(ReadFilled(n), n + 1, Len(ReadFilled(n)))
AvailAfter(n) == Drop(avail, Len(ReadData(n)))

\* --------------------------------------------------------- Node.monitor
RECURSIVE DigitRun(_, _)
DigitRun(s, i) ==
    IF i <= Len(s) /\ IsDigit(s[i].v) THEN 1 + DigitRun(s, i + 1) ELSE 0
\* marker = chr( 1 ) + r'\d+\r\n': the length of its match at i, 0 when none
MarkerAt(s, i) ==
    LET d == DigitRun(s, i + 1) IN
    IF /\ s[i].v = SOH
       /\ d >= 1
       /\ i + d + 2 <= Len(s)
       /\ s[i + d + 1].v = CR
       /\ s[i + d + 2].v = LF
    THEN d + 3 ELSE 0
\* re.findall( marker, data ): the place of the first match, 0 when none
FirstMarker(s) ==
    IF \E i \in DOMAIN s : MarkerAt(s, i) > 0
    THEN CHOOSE i \in DOMAIN s :
            MarkerAt(s, i) > 0 /\ \A j \in 1..(i - 1) : MarkerAt(s, j) = 0
    ELSE 0
\* int( markers[ 0 ][ 1: ] )
RECURSIVE ToInt(_, _, _)
ToInt(s, i, d) ==
    IF d = 0 THEN 0 ELSE ToInt(s, i, d - 1) * 10 + (s[i + d - 1].v - 48)
\* re.sub( marker, '', data )
RECURSIVE SubMarkers(_, _)
SubMarkers(s, i) ==
    IF i > Len(s) THEN <<>>
    ELSE IF MarkerAt(s, i) > 0 THEN SubMarkers(s, i + MarkerAt(s, i))
    ELSE <<s[i]>> \o SubMarkers(s, i + 1)
RECURSIVE Without(_, _)
Without(s, x) ==
    IF s = <<>> THEN <<>>
    ELSE IF Head(s).v = x THEN Without(Tail(s), x)
    ELSE <<Head(s)>> \o Without(Tail(s), x)

MonHasMarker(data) == HasVal(data, SOH) /\ FirstMarker(data) > 0
MonPid(data) ==
    IF MonHasMarker(data)
    THEN ToInt(data, FirstMarker(data) + 1, DigitRun(data, FirstMarker(data) + 1))
    ELSE lastPid
MonStripped(data) == IF MonHasMarker(data) THEN SubMarkers(data, 1) ELSE data
\* either branch of "Look for sentinel/EOF" is taken
MonSentinel(d) == (Len(d) > 0 /\ d[Len(d)].v = DEL) \/ HasVal(d, DEL)
MonWaitingKeep(d) == waiting
MonWaiting(d) == IF MonSentinel(d) THEN FALSE ELSE waiting
MonData(d) ==
    IF Len(d) > 0 /\ d[Len(d)].v = DEL THEN SubSeq(d, 1, Len(d) - 1)
    ELSE IF HasVal(d, DEL) THEN Without(d, DEL)
    ELSE d
\* what monitor() returns for the chunk read( 1024 ) gave it
MonReturn(data) == MonData(MonStripped(data))

\* --------------------------------------------------------- Node.sendCmd
\* The commands a caller passes: given is FALSE for sendCmd() without a
\* command, word says the text holds a word character (re.search( r'\w', cmd )),
\* builtin what isShellBuiltin answers, out the bytes the command prints.
OutBytes == {97, DEL}
Outs == SeqsUpTo(OutBytes, MaxOut)
NoArgs == [given |-> FALSE, name |-> "", word |-> FALSE, builtin |-> FALSE, out |-> <<>>]
Blank == [given |-> TRUE, name |-> " ", word |-> FALSE, builtin |-> FALSE, out |-> <<>>]
EchoN == [given |-> TRUE, name |-> "echo -n", word |-> TRUE, builtin |-> TRUE, out |-> <<>>]
Cd == [given |-> TRUE, name |-> "cd", word |-> TRUE, builtin |-> TRUE, out |-> <<>>]
Prog(o) == [given |-> TRUE, name |-> "prog", word |-> TRUE, builtin |-> FALSE, out |-> o]
Cmds == {NoArgs, Blank, Cd} \cup {Prog(o) : o \in Outs}
Opts == [printPid : BOOLEAN, mn_use_mnexec : BOOLEAN, mn_disable_io_buf : BOOLEAN,
         mn_wait : BOOLEAN]
IsShellBuiltin(c) == c.builtin

\* lastCmd: the text of a command line, None before the first
NoCmd == [name |-> "None", mnexec |-> FALSE, stdbuf |-> FALSE]
CmdLine(f) == [name |-> f.name, mnexec |-> f.mnexec, stdbuf |-> f.stdbuf]
NoDisp == [k |-> 0, out |-> <<>>, wait |-> FALSE, polled |-> FALSE, seen |-> FALSE,
           prev |-> FALSE]

\* the command line sendCmd writes for command c under options o
FinalCmd(c, o) ==
    LET base == IF ~c.word THEN EchoN ELSE c
        wrap == o.printPid /\ ~IsShellBuiltin(base)
    IN [name |-> base.name, out |-> base.out,
        mnexec |-> wrap /\ o.mn_use_mnexec,
        stdbuf |-> wrap /\ o.mn_disable_io_buf]

\* sendCmd from "printPid = ..." to its end, the handshake done
SendCmdFinish(c, o) ==
    IF ~c.given
    THEN /\ err' = "UnboundLocalError"
         /\ UNCHANGED <<pend, lastCmd, lastPid, waiting, disp>>
    ELSE /\ err' = "none"
         /\ pend' = pend \o CmdResponse(FinalCmd(c, o), serial)
         /\ disp' = [k |-> serial, out |-> FinalCmd(c, o).out, wait |-> o.mn_wait,
                     polled |-> FALSE, seen |-> FALSE,
                     prev |-> disp.k > 0 /\ retFor = disp.k]
         /\ IF o.mn_wait
            THEN lastCmd' = CmdLine(FinalCmd(c, o)) /\ lastPid' = None /\ waiting' = TRUE
            ELSE UNCHANGED <<lastCmd, lastPid, waiting>>

\* buf = buf[ i + len( match ): ]
AfterMatchKeep(b, i) == b
AfterMatch(b, i) == Drop(b, i)

SendCmdNoAssert ==
    /\ pc = "idle"
    /\ lastOp' = "sendCmd"
    /\ ret' = <<>>
    /\ serial < MaxSerial
    /\ serial' = serial + 1
    /\ pend' = pend \o HsResponse(serial + 1)
    /\ pc' = "hs1"
    /\ buf' = <<>>
    /\ err' = "none"
    /\ UNCHANGED <<readbuf, waiting, lastCmd, lastPid, output, avail,
                   disp, retFor, rejAt>>
    /\ UNCHANGED <<readVars, linkVars>>
\* sendCmd up to its first read: the assertion, the serial, the echo line
SendCmd ==
    /\ pc = "idle"
    /\ lastOp' = "sendCmd"
    /\ ret' = <<>>
    /\ IF waiting
       THEN /\ err' = "AssertionError"
            /\ rejAt' = disp.k
            /\ UNCHANGED <<serial, readbuf, waiting, lastCmd, lastPid, pc, buf, output,
                           pend, avail, disp, retFor>>
       ELSE /\ serial < MaxSerial
            /\ serial' = serial + 1
            /\ pend' = pend \o HsResponse(serial + 1)
            /\ pc' = "hs1"
            /\ buf' = <<>>
            /\ err' = "none"
            /\ UNCHANGED <<readbuf, waiting, lastCmd, lastPid, output, avail,
                           disp, retFor, rejAt>>
    /\ UNCHANGED <<readVars, linkVars>>

\* One buf += self.read( 1024 ) of either handshake loop, and the code after it
\* up to the next read or the end of sendCmd. The command and the options of
\* the call are drawn where sendCmd first reads them, after the handshake.
HsRead ==
    /\ pc \in {"hs1", "hs2"}
    /\ ~ReadBlocks(ReadMax)
    /\ LET b1 == buf \o ReadResult(ReadMax)
           i == FindVal(b1, Mark(serial))
           found == pc = "hs2" \/ i > 0
           b2 == IF pc = "hs1" /\ i > 0 THEN AfterMatch(b1, i) ELSE b1
       IN /\ readbuf' = ReadRest(ReadMax)
          /\ avail' = AvailAfter(ReadMax)
          /\ IF found /\ HasVal(b2, DEL)
             THEN /\ \E c \in Cmds, o \in Opts : SendCmdFinish(c, o)
                  /\ pc' = "idle"
                  /\ buf' = <<>>
             ELSE /\ pc' = (IF found THEN "hs2" ELSE "hs1")
                  /\ buf' = b2
                  /\ UNCHANGED <<pend, lastCmd, lastPid, waiting, disp, err>>
    /\ UNCHANGED <<serial, output, ret, lastOp, retFor, rejAt>>
    /\ UNCHANGED <<readVars, linkVars>>

\* ------------------------------------------- Node.monitor, Node.waitOutput
PromptsIn(data) == {data[i].k : i \in {j \in DOMAIN data : data[j].t = "prompt"}}

\* monitor(): waitReadable, read( 1024 ), the PID marker, the sentinel
MonitorBody ==
    /\ ~ReadBlocks(ReadMax)
    /\ readbuf' = ReadRest(ReadMax)
    /\ avail' = AvailAfter(ReadMax)
    /\ lastPid' = MonPid(ReadResult(ReadMax))
    /\ waiting' = MonWaiting(MonStripped(ReadResult(ReadMax)))

\* monitor() called by the caller itself
Monitor ==
    /\ pc = "idle"
    /\ MonitorBody
    /\ ret' = MonReturn(ReadResult(ReadMax))
    /\ err' = "none"
    /\ lastOp' = "monitor"
    /\ disp' = [disp EXCEPT !.polled = TRUE,
                            !.seen = @ \/ disp.k \in PromptsIn(ReadResult(ReadMax))]
    /\ UNCHANGED <<serial, lastCmd, pc, buf, output, pend, retFor, rejAt>>
    /\ UNCHANGED <<readVars, linkVars>>

\* waitOutput() up to its first monitor(), or its return when not waiting
WaitOutput ==
    /\ pc = "idle"
    /\ err' = "none"
    /\ lastOp' = "waitOutput"
    /\ ret' = <<>>
    /\ IF waiting
       THEN /\ pc' = "wo"
            /\ retFor' = IF disp.polled THEN 0 ELSE disp.k
       ELSE /\ retFor' = 0
            /\ UNCHANGED pc
    /\ UNCHANGED <<serial, readbuf, waiting, lastCmd, lastPid, buf, output, pend, avail,
                   disp, rejAt>>
    /\ UNCHANGED <<readVars, linkVars>>

\* one data = self.monitor(); output += data of waitOutput, and the loop test
WaitStep ==
    /\ pc = "wo"
    /\ MonitorBody
    /\ disp' = [disp EXCEPT !.seen = @ \/ disp.k \in PromptsIn(ReadResult(ReadMax))]
    /\ IF waiting'
       THEN /\ output' = output \o MonReturn(ReadResult(ReadMax))
            /\ UNCHANGED <<pc, ret>>
       ELSE /\ ret' = output \o MonReturn(ReadResult(ReadMax))
            /\ output' = <<>>
            /\ pc' = "idle"
    /\ UNCHANGED <<serial, lastCmd, buf, err, lastOp, pend, retFor, rejAt>>
    /\ UNCHANGED <<readVars, linkVars>>

\* the shell's next byte reaches the pty
Emit ==
    /\ pend # <<>>
    /\ avail' = Append(avail, Head(pend))
    /\ pend' = Tail(pend)
    /\ UNCHANGED <<serial, readbuf, waiting, lastCmd, lastPid, pc, buf, output,
                   ret, err, lastOp, disp, retFor, rejAt>>
    /\ UNCHANGED <<readVars, linkVars>>

\* after Node.__init__ has read the line with the shell's pid: the shell is
\* about to print its first prompt
InitChan ==
    /\ serial = 0
    /\ readbuf = <<>>
    /\ waiting = FALSE
    /\ lastCmd = NoCmd
    /\ lastPid = None
    /\ pc = "idle"
    /\ buf = <<>>
    /\ output = <<>>
    /\ ret = <<>>
    /\ err = "none"
    /\ lastOp = "init"
    /\ pend = <<B(DEL, 0, "prompt")>>
    /\ avail = <<>>
    /\ disp = NoDisp
    /\ retFor = 0
    /\ rejAt = 0
InitReadHist ==
    /\ recv = <<>>
    /\ deliv = <<>>
    /\ asked = 0

\* the nodes of the link runs and their tables at construction
Nodes == {"h1", "s1"}
Hosts == {"h1"}
Switches == {"s1"}
Empty == [x \in {} |-> 0]
\* the controller objects a switch is started with
Controllers == {"c0"}
CtrlSets == SUBSET Controllers
\* a controller outside Mininet's control
RemoteControllers == {"rc0"}
AllNodes == Nodes \cup Controllers \cup RemoteControllers
\* no bridge or datapath, no switch process, saved_contr = None: up, whether
\* the forwarding object exists; members, the interfaces added to it; procs,
\* the controller list its protocol process runs with (none or one list);
\* saved, the list in saved_contr (none for None)
\* numSwitch, the count OVSKernelSwitchNew keeps of its instances
NoSwitch == [up |-> FALSE, members |-> {}, procs |-> {}, saved |-> {},
             numSwitch |-> 0]
\* self.stdout.fileno() of each node: the master side of its pty, one
\* descriptor for reading and writing, open as long as the program runs
Fileno == [h1 |-> 3, s1 |-> 5, c0 |-> 7, rc0 |-> 9]
\* Node.fdToNode( fd ): outToNode.get( fd ) or inToNode.get( fd ), "None"
\* when neither map has the descriptor
FdToNode(fd) ==
    IF fd \in DOMAIN outToNode THEN outToNode[fd]
    ELSE IF fd \in DOMAIN inToNode THEN inToNode[fd]
    ELSE "None"
\* the tables of the nodes made and the switch of the class in backend
InitTables ==
    /\ sw = [NoSwitch EXCEPT
               !.numSwitch = IF backend = "OVSKernelSwitchNew" THEN @ + 1 ELSE @]
    /\ alive = AllNodes
    /\ execed = [n \in AllNodes |-> FALSE]
    /\ ips = [n \in AllNodes |-> Empty]
    /\ macs = [n \in AllNodes |-> Empty]
    /\ ran = <<>>
    /\ intfs = [n \in Nodes |-> Empty]
    /\ ports = [n \in Nodes |-> Empty]
    /\ connection = [n \in Nodes |-> Empty]
    /\ last = [op |-> "init", err |-> "none"]
    /\ outToNode = [fd \in {Fileno[n] : n \in AllNodes} |->
                       CHOOSE n \in AllNodes : Fileno[n] = fd]
    /\ inToNode = outToNode
    /\ allocated = [n \in Nodes |-> {}]
    /\ devs = {}
\* the tables in the runs of the command channel: no interface is made there
InitLinkHist == backend = "KernelSwitch" /\ InitTables /\ owner = "h1"
Init == InitChan /\ InitReadHist /\ InitLinkHist

\* ------------------------------------------------- read() on a raw stream
\* read( n ) called by the caller itself
Read(n) ==
    /\ pc = "idle"
    /\ ~ReadBlocks(n)
    /\ ret' = ReadResult(n)
    /\ readbuf' = ReadRest(n)
    /\ avail' = AvailAfter(n)
    /\ lastOp' = "read"
    /\ err' = "none"
    /\ recv' = recv \o ReadData(n)
    /\ deliv' = deliv \o ReadResult(n)
    /\ asked' = n
    /\ UNCHANGED <<serial, waiting, lastCmd, lastPid, pc, buf, output, pend, disp,
                   retFor, rejAt>>
    /\ UNCHANGED linkVars

RawBytes == {97, LF}
\* a stream of bytes, each labelled with its place in the stream
RawStreams ==
    {[i \in DOMAIN s |-> B(s[i], i, "raw")] : s \in SeqsUpTo(RawBytes, MaxStream)}
\* The node with some first bytes of the stream in readbuf, where an earlier
\* readline() that found a newline leaves what followed it, and the rest
\* still to come.
InitRead ==
    /\ serial = 0
    /\ waiting = FALSE
    /\ lastCmd = NoCmd
    /\ lastPid = None
    /\ pc = "idle"
    /\ buf = <<>>
    /\ output = <<>>
    /\ ret = <<>>
    /\ err = "none"
    /\ lastOp = "init"
    /\ avail = <<>>
    /\ disp = NoDisp
    /\ retFor = 0
    /\ rejAt = 0
    /\ \E s \in RawStreams, r \in 0..MaxStream :
          /\ r <= Len(s)
          /\ readbuf = Take(s, r)
          /\ pend = Drop(s, r)
          /\ recv = Take(s, r)
    /\ deliv = <<>>
    /\ asked = 0
    /\ InitLinkHist
NextRead ==
    \/ \E n \in 1..MaxN : Read(n)
    \/ Emit
SpecRead == InitRead /\ [][NextRead]_vars
Next ==
    \/ SendCmd
    \/ HsRead
    \/ Monitor
    \/ WaitOutput
    \/ WaitStep
    \/ Emit
Spec == Init /\ [][Next]_vars

\* ------------------------------------------------- interfaces and links
Backends == {"LinuxBridge", "UserSwitch", "KernelSwitch", "OVSKernelSwitchNew",
             "OVSKernelSwitch", "OVSUserSwitch"}
\* the backends whose start() tests the port range
Checking == {"KernelSwitch", "OVSKernelSwitchNew", "OVSKernelSwitch", "OVSUserSwitch"}
PortBase(n) == IF n \in Switches THEN SWITCH_PORT_BASE ELSE NODE_PORT_BASE

\* a dict as a function: d[ k ] = v, del d[ k ]
Put(d, k, v) == [x \in DOMAIN d \cup {k} |-> IF x = k THEN v ELSE d[x]]
Del(d, k) == [x \in DOMAIN d \ {k} |-> d[x]]
Values(d) == {d[x] : x \in DOMAIN d}
Max(S) == CHOOSE x \in S : \A y \in S : y <= x
Lowest(S) == CHOOSE x \in S : \A y \in S : x <= y

\* The tables of all nodes and the exception raised so far, if any: the value
\* the operations below take and give back. After an exception nothing more of
\* the operation runs.
Tables == [intfs |-> intfs, ports |-> ports, conn |-> connection, err |-> "none",
           sw |-> sw, alive |-> alive, execed |-> execed, ips |-> ips,
           macs |-> macs, ran |-> <<>>, allocated |-> allocated, devs |-> devs]
Raise(G, e) == [G EXCEPT !.err = e]

\* inNamespace: True unless the constructor is told otherwise, and the three
\* OVS classes and KernelSwitch exit when it is True
InNamespace(n) == n \notin Switches \/ backend \in {"LinuxBridge", "UserSwitch"}
\* one more step in the history of the operation, a run of the same step
\* written once
Log(G, e) ==
    [G EXCEPT !.ran = IF @ # <<>> /\ @[Len(@)] = e THEN @ ELSE Append(@, e)]
\* self.cmd( ... ): sendCmd asserts that no command is outstanding, writes
\* its marker and reads until the marker comes back, which is never when the
\* shell has ended (the outcome "blocked": the call does not return); S is
\* the switch as the command leaves it
CmdDo(G, n, what, S) ==
    IF G.err # "none" THEN G
    ELSE IF n = owner /\ waiting THEN Raise(G, "AssertionError")
    ELSE IF n \notin G.alive THEN Raise(G, "blocked")
    ELSE [Log(G, <<"cmd", what>>) EXCEPT !.sw = S]
\* quietRun( ... ) and the helpers of mininet.util, run outside the node
QuietRunDo(G, what, S) ==
    IF G.err # "none" THEN G
    ELSE [Log(G, <<"quietRun", what>>) EXCEPT !.sw = S]

\* intfName: name + '-eth' + repr( n ), as the pair of the name and the number
IntfName(n, p) == <<n, p>>
\* "%s.%d" % ( intf, vlan )
VlanName(intf, vlan) == Append(intf, vlan)
\* intfToPort: int() of what follows the last '-eth', which raises ValueError
\* on the name of a vlan interface
IntRaises(intf) == Len(intf) # 2
IntfToPort(intf) == intf[2]

NewPortCount(G, n) == Cardinality(DOMAIN G.ports[n]) + PortBase(n)
NewPort(G, n) ==
    IF Cardinality(DOMAIN G.ports[n]) > 0 THEN Max(Values(G.ports[n])) + 1
    ELSE PortBase(n)

\* Switch.startIntfs: ifconfig lo up, ifconfig up of each interface
StartIntfs(G, n) == CmdDo(G, n, "ifconfig", G.sw)
\* repr( n ) of a port below 100, digit by digit
Digits(p) == IF p < 10 THEN <<p>> ELSE <<p \div 10, p % 10>>
\* s < t of two strings
StrLess(s, t) ==
    \E k \in 1..(Len(s) + 1) :
        /\ \A x \in 1..(k - 1) : x <= Len(t) /\ s[x] = t[x]
        /\ k <= Len(t)
        /\ k <= Len(s) => s[k] < t[k]
\* the order of two interface names of one node: that of the digits after
\* '-eth'
NameLess(i, j) == StrLess(Digits(i[2]), Digits(j[2]))
\* sorted( names ) of the names of one node
RECURSIVE SortedNames(_)
SortedNames(S) ==
    IF S = {} THEN <<>>
    ELSE LET x == CHOOSE y \in S : \A z \in S \ {y} : NameLess(y, z)
         IN <<x>> \o SortedNames(S \ {x})
\* the sequences that list each member of S once
Orders(S) ==
    {o \in [1..Cardinality(S) -> S] : \A x \in S : \E k \in DOMAIN o : o[k] = x}
\* sorted( self.intfs.values() ), without its last one in a namespace
DatapathOrder(G, n) ==
    LET o == SortedNames(Values(G.intfs[n]))
    IN IF InNamespace(n) /\ o # <<>> THEN SubSeq(o, 1, Len(o) - 1) ELSE o
DatapathIntfs(G, n) == {DatapathOrder(G, n)[k] : k \in DOMAIN DatapathOrder(G, n)}
\* UserSwitch.start( controllers )
UserSwitchStart(G, n, controllers) ==
    LET G0 == IF G.err # "none" THEN G ELSE [G EXCEPT !.sw.saved = {controllers}]
        G1 == StartIntfs(G0, n)
        G2 == CmdDo(G1, n, "ofdatapath",
                    [G1.sw EXCEPT !.up = TRUE, !.members = DatapathIntfs(G1, n)])
    IN CmdDo(G2, n, "ofprotocol", [G2.sw EXCEPT !.procs = {controllers}])
\* UserSwitch.stopprocs: killjob of the datapath, killjob of the protocol
Stopprocs(G, n) ==
    LET G1 == CmdDo(G, n, "kill %ofdatapath", [G.sw EXCEPT !.up = FALSE, !.members = {}])
    IN CmdDo(G1, n, "kill %ofprotocol", [G1.sw EXCEPT !.procs = {}])
\* UserSwitch.restart: "if (self.saved_contr)" is false of None and of a
\* list that is empty
SavedTruthy(S) == \E c \in S.saved : c # {}
Restart(G, n) ==
    IF G.err # "none" \/ ~SavedTruthy(G.sw) THEN G
    ELSE UserSwitchStart(Stopprocs(G, n), n, CHOOSE c \in G.sw.saved : TRUE)

\* an interface joins, leaves the forwarding object, if there is one
Joined(S, I) == IF S.up THEN [S EXCEPT !.members = @ \cup I] ELSE S
Left(S, I) == [S EXCEPT !.members = @ \ I]

\* makeIntfPair( intf1, intf2 ) of mininet.util, run by the program itself
\* and so in the root namespace: 'ip link del' of both names, then 'ip link
\* add name intf1 type veth peer name intf2'
MakeIntfPair(G, intf1, intf2) ==
    IF G.err # "none" THEN G
    ELSE [QuietRunDo(G, "makeIntfPair", G.sw) EXCEPT
            !.devs = @ \cup {<<"root", intf1>>, <<"root", intf2>>}]
\* moveIntf( intf, node ) of mininet.util: 'ip link set intf netns pid', which
\* moves the device of that name out of the root namespace, unless there is
\* none or the namespace of the node has a device of that name; it raises
\* nothing either way
MoveIntf(G, intf, n) ==
    IF G.err # "none" THEN G
    ELSE [QuietRunDo(G, "moveIntf", G.sw) EXCEPT
            !.devs = IF <<"root", intf>> \in @ /\ <<n, intf>> \notin @
                     THEN (@ \ {<<"root", intf>>}) \cup {<<n, intf>>}
                     ELSE @]
\* quietRun( 'ip link del ' + intf ) for each intf of I: run by the program
\* itself, it ends the devices of these names that the root namespace has;
\* S, the switch as the commands leave it
IpLinkDel(G, I, S) ==
    IF G.err # "none" THEN G
    ELSE [QuietRunDo(G, "ip link del", S) EXCEPT
            !.devs = @ \ {<<"root", i>> : i \in I}]

\* Node.addIntf, with the port already chosen
NodeAddIntf(G, n, intf, port) ==
    IF G.err # "none" THEN G
    ELSE LET G1 == [G EXCEPT !.intfs[n] = Put(@, port, intf),
                             !.ports[n] = Put(@, intf, port)]
         IN IF InNamespace(n) THEN MoveIntf(G1, intf, n) ELSE G1
\* addIntf of the node's class: Node.addIntf, then what the class adds
AddIntf(G, n, intf, port) ==
    LET G1 == NodeAddIntf(G, n, intf, port)
    IN IF n \notin Switches \/ G1.err # "none" THEN G1
       ELSE IF backend = "LinuxBridge"
            THEN CmdDo(G1, n, "brctl addif", Joined(G1.sw, {intf}))
       ELSE IF backend = "UserSwitch" THEN Restart(G1, n)
       ELSE IF backend = "OVSKernelSwitchNew"
            THEN CmdDo(G1, n, "ovs-vsctl add-port", Joined(G1.sw, {intf}))
       ELSE IF backend = "OVSKernelSwitch"
            THEN CmdDo(G1, n, "ovs-dpctl add-if", Joined(G1.sw, {intf}))
       ELSE G1

RegisterIntfOwn(G, n, intf, dstNode, dstIntf) ==
    IF G.err # "none" THEN G
    ELSE [G EXCEPT !.conn[n] = Put(@, intf, <<dstNode, intf>>)]
RegisterIntf(G, n, intf, dstNode, dstIntf) ==
    IF G.err # "none" THEN G
    ELSE [G EXCEPT !.conn[n] = Put(@, intf, <<dstNode, dstIntf>>)]

\* the ports linkTo uses: the ones given, newPort() for the ones left out
LinkPort(G, n, port) == IF port = None THEN NewPort(G, n) ELSE port
LinkTo(G, node1, node2, port1, port2) ==
    LET p1 == LinkPort(G, node1, port1)
        p2 == LinkPort(G, node2, port2)
        intf1 == IntfName(node1, p1)
        intf2 == IntfName(node2, p2)
        G0 == MakeIntfPair(G, intf1, intf2)
        G1 == AddIntf(G0, node1, intf1, p1)
        G2 == AddIntf(G1, node2, intf2, p2)
        G3 == RegisterIntf(G2, node1, intf1, node2, intf2)
    IN RegisterIntf(G3, node2, intf2, node1, intf1)

\* Node.deleteIntf: each del raises KeyError when the key is missing, and
\* leaves done what was done before it; 'ip link del' at the end, after which
\* the interface is no device any more, and no member of anything
NodeDeleteIntf(G, n, intf) ==
    IF G.err # "none" THEN G
    ELSE IF intf \notin DOMAIN G.conn[n] THEN Raise(G, "KeyError")
    ELSE LET G1 == [G EXCEPT !.conn[n] = Del(@, intf)]
             port == IntfToPort(intf)
         IN IF IntRaises(intf) THEN Raise(G1, "ValueError")
            ELSE IF port \notin DOMAIN G1.intfs[n] THEN Raise(G1, "KeyError")
            ELSE LET G2 == [G1 EXCEPT !.intfs[n] = Del(@, port)]
                 IN IF intf \notin DOMAIN G2.ports[n] THEN Raise(G2, "KeyError")
                    ELSE IpLinkDel([G2 EXCEPT !.ports[n] = Del(@, intf)],
                                   {intf}, Left(G2.sw, {intf}))
\* deleteIntf of the node's class: Node.deleteIntf, then what the class adds
DeleteIntf(G, n, intf) ==
    LET G1 == NodeDeleteIntf(G, n, intf)
    IN IF n \notin Switches \/ G1.err # "none" THEN G1
       ELSE IF backend = "LinuxBridge"
            THEN CmdDo(G1, n, "brctl delif", Left(G1.sw, {intf}))
       ELSE IF backend = "UserSwitch" THEN Restart(G1, n)
       ELSE IF backend = "OVSKernelSwitchNew"
            THEN CmdDo(G1, n, "ovs-vsctl del-port", Left(G1.sw, {intf}))
       ELSE IF backend = "OVSKernelSwitch"
            THEN CmdDo(G1, n, "ovs-dpctl del-if", Left(G1.sw, {intf}))
       ELSE G1

DeletePort(G, n, port) == DeleteIntf(G, n, IntfName(n, port))

\* defaultIntf: the interface of the lowest port
HasIntf(G, n) == DOMAIN G.intfs[n] # {}
DefaultIntf(G, n) == G.intfs[n][Lowest(DOMAIN G.intfs[n])]
SwitchDefaultIntfLowest(G, n) == G.intfs[n][Lowest(DOMAIN G.intfs[n])]
\* Switch.defaultIntf: the interface of the highest port
SwitchDefaultIntf(G, n) == G.intfs[n][Max(DOMAIN G.intfs[n])]
\* defaultIntf of the node's class, of a node that has an interface
ClassDefaultIntf(G, n) ==
    IF n \in Switches THEN SwitchDefaultIntf(G, n) ELSE DefaultIntf(G, n)
\* Host.addvlan; found: 'ip addr show' printed an address with a prefix length
\* (asked of the interface "None" when the host has no interface, it does not)
Addvlan(G, n, vlan, found) ==
    IF n = owner /\ waiting THEN Raise(G, "AssertionError")
    ELSE IF ~HasIntf(G, n) \/ ~found THEN G
    ELSE LET intf == DefaultIntf(G, n)
         IN IF intf \notin DOMAIN G.ports[n] THEN Raise(G, "KeyError")
            ELSE LET port == G.ports[n][intf]
                 IN [G EXCEPT !.intfs[n] = Put(@, port, VlanName(intf, vlan)),
                              !.ports[n] = Put(@, VlanName(intf, vlan), port)]

RECURSIVE DeleteEach(_, _, _)
DeleteEach(G, n, S) ==
    IF S = {} THEN G
    ELSE LET i == CHOOSE x \in S : TRUE
         IN DeleteEach(DeleteIntf(G, n, i), n, S \ {i})

\* "if dstPort": a port that is given and is not 0
Truthy(port) == port # None /\ port # 0
DeleteIntfsToNode(G, n, dstNode, dstPort) ==
    LET picked ==
          IF Truthy(dstPort)
          THEN {i \in DOMAIN G.conn[n] : G.conn[n][i][2] = IntfName(dstNode, dstPort)}
          ELSE {i \in DOMAIN G.conn[n] : G.conn[n][i][1] = dstNode}
    IN IF G.err # "none" THEN G ELSE DeleteEach(G, n, picked)

RECURSIVE UnlinkEach(_, _, _)
UnlinkEach(G, n, S) ==
    IF S = {} THEN G
    ELSE LET node == CHOOSE x \in S : TRUE
             G1 == DeleteIntfsToNode(G, n, node, None)
             G2 == DeleteIntfsToNode(G1, node, n, None)
         IN UnlinkEach(G2, n, S \ {node})
\* unlinkFrom( node2 ), node2 = "" standing for no node given
UnlinkFrom(G, n, node2) ==
    LET unlinkList ==
          IF node2 # "" THEN {node2}
          ELSE {G.conn[n][i][1] : i \in DOMAIN G.conn[n]}
    IN UnlinkEach(G, n, unlinkList)

\* ports = sorted( self.ports.values() ) and the test on it in start()
StartCheck(G, n) ==
    IF Cardinality(DOMAIN G.ports[n]) = 0 THEN Raise(G, "IndexError")
    ELSE IF Cardinality(DOMAIN G.ports[n]) # Max(Values(G.ports[n])) + 1 - PortBase(n)
         THEN Raise(G, "Exception")
    ELSE G
\* the test, when start() has come as far as the test
Check(G, n) == IF G.err # "none" THEN G ELSE StartCheck(G, n)
\* intfs = [ self.intfs[ port ] for port in ports ]
PortIntfs(G, n) ==
    IF G.err = "none" /\ \E p \in Values(G.ports[n]) : p \notin DOMAIN G.intfs[n]
    THEN Raise(G, "KeyError") ELSE G
ByPort(G, n) == {G.intfs[n][p] : p \in Values(G.ports[n]) \cap DOMAIN G.intfs[n]}
\* LinuxBridge.start
LinuxBridgeStart(G, n, controllers) ==
    LET G1 == StartIntfs(G, n)
        G2 == CmdDo(G1, n, "brctl addbr", [G1.sw EXCEPT !.up = TRUE])
        G3 == CmdDo(G2, n, "brctl stp", G2.sw)
        G4 == IF DOMAIN G3.intfs[n] = {} THEN G3
              ELSE CmdDo(G3, n, "brctl addif", Joined(G3.sw, Values(G3.intfs[n])))
        G5 == CmdDo(G4, n, "ifconfig", G4.sw)
    IN CmdDo(G5, n, "brctl setfd", G5.sw)
\* KernelSwitch.start (no defaultMAC given)
KernelSwitchStart(G, n, controllers) ==
    LET G1 == StartIntfs(G, n)
        G2 == QuietRunDo(G1, "dpctl deldp", [G1.sw EXCEPT !.up = FALSE, !.members = {}])
        G3 == CmdDo(G2, n, "dpctl adddp", [G2.sw EXCEPT !.up = TRUE])
        G4 == PortIntfs(Check(G3, n), n)
        G5 == CmdDo(G4, n, "dpctl addif", Joined(G4.sw, ByPort(G4, n)))
    IN CmdDo(G5, n, "ofprotocol", [G5.sw EXCEPT !.procs = {controllers}])
\* OVSKernelSwitchNew.start (no defaultMAC given)
OVSKernelSwitchNewStart(G, n, controllers) ==
    LET G1 == StartIntfs(G, n)
        G2 == QuietRunDo(G1, "ovs-vsctl del-br", [G1.sw EXCEPT !.up = FALSE, !.members = {}])
        G3 == CmdDo(G2, n, "ovs-vsctl add-br", [G2.sw EXCEPT !.up = TRUE])
        G4 == CmdDo(G3, n, "ovs-vsctl set-fail-mode", G3.sw)
        G5 == PortIntfs(Check(G4, n), n)
        G6 == CmdDo(G5, n, "ovs-vsctl add-port", Joined(G5.sw, ByPort(G5, n)))
    IN IF controllers # {}
       THEN CmdDo(G6, n, "ovs-vsctl set-controller", [G6.sw EXCEPT !.procs = {controllers}])
       ELSE G6
\* OVSKernelSwitch.start
OVSKernelSwitchStart(G, n, controllers) ==
    LET G1 == StartIntfs(G, n)
        G2 == QuietRunDo(G1, "ovs-dpctl del-dp", [G1.sw EXCEPT !.up = FALSE, !.members = {}])
        G3 == CmdDo(G2, n, "ovs-dpctl add-dp", [G2.sw EXCEPT !.up = TRUE])
        G4 == PortIntfs(Check(G3, n), n)
        G5 == CmdDo(G4, n, "ovs-dpctl add-if", Joined(G4.sw, ByPort(G4, n)))
    IN CmdDo(G5, n, "ovs-openflowd", [G5.sw EXCEPT !.procs = {controllers}])
\* OVSUserSwitch.start: the one command brings up the datapath with its ports
OVSUserSwitchStart(G, n, controllers) ==
    LET G1 == StartIntfs(G, n)
        G2 == PortIntfs(Check(G1, n), n)
    IN CmdDo(G2, n, "ovs-openflowd",
             [G2.sw EXCEPT !.up = TRUE, !.members = ByPort(G2, n),
                           !.procs = {controllers}])
\* [ self.intfs[ port ] for port in sorted( self.ports.values() ) ]
RECURSIVE ByPortOrder(_, _, _)
ByPortOrder(G, n, P) ==
    IF P = {} THEN <<>>
    ELSE <<G.intfs[n][Lowest(P)]>> \o ByPortOrder(G, n, P \ {Lowest(P)})
\* The orders in which start() of the switch's class hands the interfaces to
\* the forwarding object: LinuxBridge.start goes through self.intfs.items(),
\* a dict, whose order the language leaves open.
StartOrders(G, n) ==
    IF backend = "LinuxBridge" THEN Orders(Values(G.intfs[n]))
    ELSE IF backend = "UserSwitch" THEN {DatapathOrder(G, n)}
    ELSE {ByPortOrder(G, n, Values(G.ports[n]) \cap DOMAIN G.intfs[n])}
\* self.execed = True in the place of self.execed = False
NotExecedTrue(G, n) == IF G.err # "none" THEN G ELSE [G EXCEPT !.execed[n] = TRUE]
\* self.execed = False, the last line of start() in four of the classes
NotExeced(G, n) == IF G.err # "none" THEN G ELSE [G EXCEPT !.execed[n] = FALSE]
\* start( controllers ) of the switch's class
Start(G, n, controllers) ==
    IF backend = "LinuxBridge" THEN LinuxBridgeStart(G, n, controllers)
    ELSE IF backend = "UserSwitch" THEN UserSwitchStart(G, n, controllers)
    ELSE IF backend = "KernelSwitch"
         THEN NotExeced(KernelSwitchStart(G, n, controllers), n)
    ELSE IF backend = "OVSKernelSwitchNew"
         THEN NotExeced(OVSKernelSwitchNewStart(G, n, controllers), n)
    ELSE IF backend = "OVSKernelSwitch"
         THEN NotExeced(OVSKernelSwitchStart(G, n, controllers), n)
    ELSE NotExeced(OVSUserSwitchStart(G, n, controllers), n)

\* the tables after an operation
CommitTables(G) ==
    /\ intfs' = G.intfs
    /\ ports' = G.ports
    /\ connection' = G.conn
    /\ sw' = G.sw
    /\ alive' = G.alive
    /\ execed' = G.execed
    /\ ips' = G.ips
    /\ macs' = G.macs
    /\ ran' = G.ran
    /\ allocated' = G.allocated
    /\ UNCHANGED <<backend, owner, inToNode, outToNode>>
\* the same where the devices are not followed, and where they are
Commit(G) == CommitTables(G) /\ UNCHANGED devs
CommitDevs(G) == CommitTables(G) /\ devs' = G.devs

PortArgs == 0..MaxPort \cup {None}
\* the interfaces of n whose link leads to m
LinksTo(n, m) == {i \in DOMAIN connection[n] : connection[n][i][1] = m}

\* the interfaces there are, over all nodes
RECURSIVE IntfCount(_)
IntfCount(S) ==
    IF S = {} THEN 0
    ELSE LET n == CHOOSE x \in S : TRUE
         IN Cardinality(DOMAIN ports[n]) + IntfCount(S \ {n})

DoLinkTo(a, b, p1, p2) ==
    /\ IntfCount(Nodes) + 2 <= MaxIntfs
    /\ LinkPort(Tables, a, p1) <= MaxPort
    /\ LinkPort(Tables, b, p2) <= MaxPort
    /\ \E R \in {LinkTo(Tables, a, b, p1, p2)} :
        /\ Commit(R)
        /\ last' = [op |-> "linkTo", a |-> a, b |-> b, p1 |-> p1, p2 |-> p2,
                    intf1 |-> IntfName(a, LinkPort(Tables, a, p1)),
                    intf2 |-> IntfName(b, LinkPort(Tables, b, p2)),
                    err |-> R.err]
    /\ UNCHANGED <<chanVars, readVars>>

DoUnlinkFrom(a, b) ==
    /\ \E R \in {UnlinkFrom(Tables, a, b)} :
        /\ Commit(R)
        /\ last' = [op |-> "unlinkFrom", a |-> a, b |-> b,
                    gone |-> IF b = "" THEN {}
                             ELSE {<<a, i>> : i \in LinksTo(a, b)} \cup
                                  {<<b, i>> : i \in LinksTo(b, a)},
                    err |-> R.err]
    /\ UNCHANGED <<chanVars, readVars>>

DoDeleteIntfsToNode(a, b, p) ==
    /\ \E R \in {DeleteIntfsToNode(Tables, a, b, p)} :
        /\ Commit(R)
        /\ last' = [op |-> "deleteIntfsToNode",
                    err |-> R.err]
    /\ UNCHANGED <<chanVars, readVars>>

DoDeleteIntf(a, intf) ==
    /\ \E R \in {DeleteIntf(Tables, a, intf)} :
        /\ Commit(R)
        /\ last' = [op |-> "deleteIntf",
                    err |-> R.err]
    /\ UNCHANGED <<chanVars, readVars>>

DoDeletePort(a, p) ==
    /\ \E R \in {DeletePort(Tables, a, p)} :
        /\ Commit(R)
        /\ last' = [op |-> "deletePort",
                    err |-> R.err]
    /\ UNCHANGED <<chanVars, readVars>>

DoStart(s, controllers) ==
    /\ \E R \in {Start(Tables, s, controllers)} :
        /\ Commit(R)
        /\ last' = [op |-> "start", a |-> s, err |-> R.err]
    /\ UNCHANGED <<chanVars, readVars>>

\* addIntf( intf, port ) with the name of the port, the port given or left
\* to newPort
DoAddIntf(a, p) ==
    /\ IntfCount(Nodes) + 1 <= MaxIntfs
    /\ LinkPort(Tables, a, p) <= MaxPort
    /\ \E R \in {AddIntf(Tables, a, IntfName(a, LinkPort(Tables, a, p)), LinkPort(Tables, a, p))} :
        /\ Commit(R)
        /\ last' = [op |-> "addIntf",
                    err |-> R.err]
    /\ UNCHANGED <<chanVars, readVars>>

VlanIds == {5}
DoAddvlan(h, vlan, found) ==
    /\ HasIntf(Tables, h) => Len(DefaultIntf(Tables, h)) < 2 + MaxVlan
    /\ \E R \in {Addvlan(Tables, h, vlan, found)} :
        /\ Commit(R)
        /\ last' = [op |-> "addvlan", err |-> R.err]
    /\ UNCHANGED <<chanVars, readVars>>

\* the names deleteIntf is called with: those of the ports, those in the tables
IntfArgs(a) == {IntfName(a, p) : p \in 0..MaxPort} \cup DOMAIN ports[a]

InitLink == InitChan /\ InitReadHist /\ InitLinkHist
NextLink ==
    \/ \E a \in Nodes, b \in Nodes, p1 \in PortArgs, p2 \in PortArgs : DoLinkTo(a, b, p1, p2)
    \/ \E a \in Nodes, b \in Nodes \cup {""} : DoUnlinkFrom(a, b)
    \/ \E a \in Nodes, b \in Nodes, p \in PortArgs : DoDeleteIntfsToNode(a, b, p)
    \/ \E a \in Nodes : \E intf \in IntfArgs(a) : DoDeleteIntf(a, intf)
    \/ \E a \in Nodes, p \in 0..MaxPort : DoDeletePort(a, p)
SpecLink == InitLink /\ [][NextLink]_vars

\* the operations on the two port tables: links with their ports left to
\* newPort, addIntf called on its own, the deletions, Host.addvlan
NextTopo ==
    \/ \E a \in Nodes, b \in Nodes : DoLinkTo(a, b, None, None)
    \/ \E a \in Nodes, b \in Nodes \cup {""} : DoUnlinkFrom(a, b)
    \/ \E a \in Nodes : \E intf \in IntfArgs(a) : DoDeleteIntf(a, intf)
    \/ \E a \in Nodes, p \in 0..MaxPort : DoDeletePort(a, p)
    \/ \E a \in Nodes, p \in PortArgs : DoAddIntf(a, p)
    \/ \E h \in Hosts, vlan \in VlanIds, found \in BOOLEAN : DoAddvlan(h, vlan, found)
SpecTopo == InitLink /\ [][NextTopo]_vars

\* a switch of each class, its ports made and deleted, started
InitStart ==
    InitChan /\ InitReadHist /\ backend \in Backends /\ InitTables /\ owner = "h1"
NextStart ==
    \/ \E a \in Nodes, b \in Nodes, p1 \in PortArgs, p2 \in PortArgs : DoLinkTo(a, b, p1, p2)
    \/ \E a \in Nodes, p \in 0..MaxPort : DoDeletePort(a, p)
    \/ \E s \in Switches, c \in CtrlSets : DoStart(s, c)
SpecStart == InitStart /\ [][NextStart]_vars

\* ------------------------------------ links to a switch that is waiting
\* a LinuxBridge with its command channel, and links made while the caller
\* is in no call on the channel
InitBusy ==
    InitChan /\ InitReadHist /\ backend = "LinuxBridge" /\ InitTables /\ owner = "s1"
NextBusy ==
    \/ serial < MaxLive /\ SendCmd
    \/ HsRead
    \/ WaitOutput
    \/ WaitStep
    \/ Emit
    \/ \E a \in Nodes, b \in Nodes : pc = "idle" /\ DoLinkTo(a, b, None, None)
    \/ \E a \in Nodes, p \in 0..MaxPort : pc = "idle" /\ DoDeletePort(a, p)
SpecBusy == InitBusy /\ [][NextBusy]_vars

\* ------------------------------------------------- UserSwitch.restart
\* restart() called on the switch itself
DoRestart(s) ==
    /\ backend = "UserSwitch"
    /\ \E R \in {Restart(Tables, s)} :
        /\ Commit(R)
        /\ last' = [op |-> "restart", a |-> s, err |-> R.err]
    /\ UNCHANGED <<chanVars, readVars>>
\* a UserSwitch: linked, unlinked, started, restarted
InitRestart ==
    InitChan /\ InitReadHist /\ backend = "UserSwitch" /\ InitTables /\ owner = "h1"
NextRestart ==
    \/ \E a \in Nodes, b \in Nodes : DoLinkTo(a, b, None, None)
    \/ \E a \in Nodes, p \in 0..MaxPort : DoDeletePort(a, p)
    \/ \E s \in Switches, c \in CtrlSets : DoStart(s, c)
    \/ \E s \in Switches : DoRestart(s)
SpecRestart == InitRestart /\ [][NextRestart]_vars

\* ------------------------------------------------------- IP(), MAC()
\* no interface: None where an interface name is expected
NoIntf == <<>>
\* a Controller is linked to nothing: its tables stay empty
NodeHasIntf(G, n) == n \in Nodes /\ HasIntf(G, n)
\* intf = self.defaultIntf() when intf is None: Node.defaultIntf returns None
\* without interfaces, Switch.defaultIntf then returns a local that was never
\* assigned
Resolve(G, n, intf) ==
    IF intf # NoIntf THEN intf
    ELSE IF NodeHasIntf(G, n) THEN ClassDefaultIntf(G, n)
    ELSE NoIntf
ResolveRaises(G, n, intf) == intf = NoIntf /\ n \in Switches /\ ~NodeHasIntf(G, n)
\* updateIP, updateMAC: ifconfig of the interface, the first address it
\* prints or None; table is "ips" or "macs", found whether one is printed
Update(G, n, intf, table, found) ==
    LET G1 == CmdDo(G, n, "ifconfig", G.sw)
    IN IF G1.err # "none" THEN G1
       ELSE [G1 EXCEPT ![table][n] = Put(@, intf, IF found THEN "addr" ELSE "None")]
\* Node.IP, Node.MAC up to the return
Address(G, n, intf, table, found) ==
    IF ResolveRaises(G, n, intf) THEN Raise(G, "UnboundLocalError")
    ELSE IF Resolve(G, n, intf) # NoIntf /\ ~(n = owner /\ waiting)
         THEN Update(G, n, Resolve(G, n, intf), table, found)
    ELSE G
\* self.ips.get( intf, None ), and the defaultIP of Controller.IP in its place
DefaultIP == "127.0.0.1"
Get(d, k) == IF k \in DOMAIN d THEN d[k] ELSE "None"
Returned(R, n, intf, table) ==
    IF R.err # "none" THEN "None"
    ELSE IF n \in Controllers \cup RemoteControllers /\ table = "ips"
              /\ Get(R[table][n], Resolve(R, n, intf)) = "None"
         THEN DefaultIP
    ELSE Get(R[table][n], Resolve(R, n, intf))

\* the addresses stored so far, over all nodes
RECURSIVE Stored(_)
Stored(S) ==
    IF S = {} THEN 0
    ELSE LET n == CHOOSE x \in S : TRUE
         IN Cardinality(DOMAIN ips[n]) + Cardinality(DOMAIN macs[n]) + Stored(S \ {n})
\* n.IP( intf ) (table "ips") or n.MAC( intf ) (table "macs")
DoAddress(n, intf, table, found) ==
    /\ Stored(AllNodes) < MaxAsk
    /\ \E R \in {Address(Tables, n, intf, table, found)} :
        /\ Commit(R)
        /\ last' = [op |-> table, a |-> n, intf |-> intf, found |-> found,
                    ret |-> Returned(R, n, intf, table), err |-> R.err]
    /\ UNCHANGED <<chanVars, readVars>>

\* nodes of every class, their interfaces made and deleted, asked for their
\* addresses; the interface is named or left out
AddressArgs(n) == {NoIntf} \cup (IF n \in Nodes THEN {IntfName(n, 0)} ELSE {})
NextAddress ==
    \/ \E a \in Nodes, b \in Nodes : DoLinkTo(a, b, None, None)
    \/ \E a \in Nodes, p \in 0..MaxPort : DoDeletePort(a, p)
    \/ \E n \in AllNodes, table \in {"ips", "macs"}, found \in BOOLEAN :
          \E intf \in AddressArgs(n) : DoAddress(n, intf, table, found)
SpecAddress == InitStart /\ [][NextAddress]_vars

\* ------------------------------------------- waitOutput with a pattern
\* pattern.search( output ), for the pattern that finds the byte 'a'
Matches(text) == HasVal(text, 97)
\* the loop test of waitOutput with a pattern
WaitLoopMatchOnly(w, text) == ~Matches(text)
WaitLoop(w, text) == w /\ ~Matches(text)
\* waitOutput( pattern=... ) up to its first monitor(), or its return
WaitOutputPattern ==
    /\ pc = "idle"
    /\ err' = "none"
    /\ lastOp' = "waitOutputPattern"
    /\ ret' = <<>>
    /\ retFor' = 0
    /\ IF WaitLoop(waiting, <<>>)
       THEN /\ pc' = "wop"
            /\ disp' = [disp EXCEPT !.polled = TRUE]
       ELSE UNCHANGED <<pc, disp>>
    /\ UNCHANGED <<serial, readbuf, waiting, lastCmd, lastPid, buf, output, pend, avail,
                   rejAt>>
    /\ UNCHANGED <<readVars, linkVars>>
\* one data = self.monitor(); output += data of that call, and the loop test
WaitStepPattern ==
    /\ pc = "wop"
    /\ MonitorBody
    /\ disp' = [disp EXCEPT !.seen = @ \/ disp.k \in PromptsIn(ReadResult(ReadMax))]
    /\ IF WaitLoop(waiting', output \o MonReturn(ReadResult(ReadMax)))
       THEN /\ output' = output \o MonReturn(ReadResult(ReadMax))
            /\ UNCHANGED <<pc, ret>>
       ELSE /\ ret' = output \o MonReturn(ReadResult(ReadMax))
            /\ output' = <<>>
            /\ pc' = "idle"
    /\ UNCHANGED <<serial, lastCmd, buf, err, lastOp, pend, retFor, rejAt>>
    /\ UNCHANGED <<readVars, linkVars>>

\* cmd() and waitOutput() with a shell that goes on printing what it has to
\* print and a caller whose reads return when there is something to read
NextLive ==
    \/ serial < MaxLive /\ SendCmd
    \/ HsRead
    \/ WaitOutput
    \/ WaitStep
    \/ WaitOutputPattern
    \/ WaitStepPattern
    \/ Emit
Fair == WF_vars(Emit \/ HsRead \/ WaitStep \/ WaitStepPattern)
SpecLive == Init /\ [][NextLive]_vars /\ Fair

\* ----------------------------------------------------------- timeouts
\* waitReadable( timeoutms ): poll() only when readbuf is empty; it returns
\* when the pty is readable, or when the timeout, if one is given, is over
WaitReadable(timed) ==
    /\ pc = "idle"
    /\ timed \/ readbuf # <<>> \/ avail # <<>>
    /\ lastOp' = "waitReadable"
    /\ err' = "none"
    /\ ret' = <<>>
    /\ UNCHANGED <<serial, readbuf, waiting, lastCmd, lastPid, pc, buf, output,
                   pend, avail, disp, retFor, rejAt>>
    /\ UNCHANGED <<readVars, linkVars>>
\* monitor( timeoutms ) with a timeout, up to the return of its waitReadable
MonitorPoll ==
    /\ pc = "idle"
    /\ pc' = "mon"
    /\ lastOp' = "monitor"
    /\ err' = "none"
    /\ ret' = <<>>
    /\ UNCHANGED <<serial, readbuf, waiting, lastCmd, lastPid, buf, output,
                   pend, avail, disp, retFor, rejAt>>
    /\ UNCHANGED <<readVars, linkVars>>
\* the rest of that monitor: self.read( 1024 ) and what follows it
MonitorRead ==
    /\ pc = "mon"
    /\ MonitorBody
    /\ ret' = MonReturn(ReadResult(ReadMax))
    /\ pc' = "idle"
    /\ disp' = [disp EXCEPT !.polled = TRUE,
                            !.seen = @ \/ disp.k \in PromptsIn(ReadResult(ReadMax))]
    /\ UNCHANGED <<serial, lastCmd, buf, output, err, lastOp, pend, retFor, rejAt>>
    /\ UNCHANGED <<readVars, linkVars>>
\* the channel with the calls that take a timeout
NextTimeout ==
    \/ Next
    \/ \E timed \in BOOLEAN : WaitReadable(timed)
    \/ MonitorPoll
    \/ MonitorRead
SpecTimeout == Init /\ [][NextTimeout]_vars

\* ------------------------------------------------------------- execed
\* node.execed = True, assigned by the code that owns the node: the class
\* itself only ever assigns False
MarkExeced ==
    /\ pc = "idle"
    /\ ~execed[owner]
    /\ execed' = [execed EXCEPT ![owner] = TRUE]
    /\ lastOp' = "execed"
    /\ UNCHANGED <<serial, readbuf, waiting, lastCmd, lastPid, pc, buf, output,
                   ret, err, pend, avail, disp, retFor, rejAt>>
    /\ UNCHANGED <<readVars, intfs, ports, connection, backend, last, sw, alive,
                   owner, ips, macs, ran, inToNode, outToNode, allocated, devs>>
\* Switch.sendCmd: Node.sendCmd unless execed, else a line in the log and
\* the return of None
SwitchSendCmd ==
    IF ~execed[owner] THEN SendCmd
    ELSE /\ pc = "idle"
         /\ lastOp' = "sendCmd"
         /\ ret' = <<>>
         /\ err' = "none"
         /\ UNCHANGED <<serial, readbuf, waiting, lastCmd, lastPid, pc, buf, output,
                        pend, avail, disp, retFor, rejAt>>
         /\ UNCHANGED <<readVars, linkVars>>
\* sendCmd of the class of the channel's node
ClassSendCmd == IF owner \in Switches THEN SwitchSendCmd ELSE SendCmd

\* a host, a switch or a controller, its channel, and its execed set
ChanOwners == Hosts \cup Switches \cup Controllers
InitExec ==
    InitChan /\ InitReadHist /\ backend = "KernelSwitch" /\ InitTables
             /\ owner \in ChanOwners
NextExec ==
    \/ MarkExeced
    \/ ClassSendCmd
    \/ HsRead
    \/ WaitOutput
    \/ WaitStep
    \/ Emit
SpecExec == InitExec /\ [][NextExec]_vars

\* ------------------------------------------------------------- stop()
\* Node.deleteIntfs: 'ip link del' of each interface in the table, the tables
\* themselves left as they are
DeleteIntfs(G, n) ==
    IF G.err # "none" \/ DOMAIN G.intfs[n] = {} THEN G
    ELSE IpLinkDel(G, Values(G.intfs[n]), Left(G.sw, Values(G.intfs[n])))
\* Node.terminate: kill of the shell's pid, cleanup; dies, whether the shell
\* process ends on the signal
Terminate(G, n, dies) ==
    IF G.err # "none" THEN G
    ELSE [QuietRunDo(G, "kill", G.sw) EXCEPT !.alive = IF dies THEN @ \ {n} ELSE @]
Gone(S) == [S EXCEPT !.up = FALSE, !.members = {}]
LinuxBridgeStop(G, n) ==
    LET G1 == DeleteIntfs(G, n)
        G2 == CmdDo(G1, n, "ifconfig", G1.sw)
    IN CmdDo(G2, n, "brctl delbr", Gone(G2.sw))
UserSwitchStop(G, n) == DeleteIntfs(Stopprocs(G, n), n)
KernelSwitchStop(G, n) ==
    LET G1 == QuietRunDo(G, "dpctl deldp", Gone(G.sw))
        G2 == CmdDo(G1, n, "kill %ofprotocol", [G1.sw EXCEPT !.procs = {}])
    IN DeleteIntfs(G2, n)
\* OVSKernelSwitchNew.stop: the count goes down by one, and at count 0 the
\* two daemons are killed, setup() having started them and recorded their pids
OVSKernelSwitchNewStop(G, n) ==
    LET G1 == QuietRunDo(G, "ovs-vsctl del-br", Gone(G.sw))
        G2 == DeleteIntfs(G1, n)
        G3 == IF G2.err # "none" THEN G2 ELSE [G2 EXCEPT !.sw.numSwitch = @ - 1]
    IN IF G3.sw.numSwitch # 0 THEN G3
       ELSE QuietRunDo(QuietRunDo(G3, "kill ovsdb-server", G3.sw),
                       "kill ovs-vswitchd", G3.sw)
OVSKernelSwitchStop(G, n) ==
    LET G1 == QuietRunDo(G, "ovs-dpctl del-dp", Gone(G.sw))
        G2 == CmdDo(G1, n, "kill %ovs-openflowd", [G1.sw EXCEPT !.procs = {}])
    IN DeleteIntfs(G2, n)
OVSUserSwitchStop(G, n) ==
    DeleteIntfs(CmdDo(G, n, "kill %ovs-openflowd", [Gone(G.sw) EXCEPT !.procs = {}]), n)
\* Controller.stop
ControllerStop(G, n, dies) ==
    Terminate(CmdDo(G, n, "kill %controller", G.sw), n, dies)
\* stop() of the node's class: RemoteController.stop does nothing, a host
\* has Node.stop
Stop(G, n, dies) ==
    IF n \in RemoteControllers THEN G
    ELSE IF n \in Controllers THEN ControllerStop(G, n, dies)
    ELSE IF n \notin Switches THEN Terminate(G, n, dies)
    ELSE IF backend = "LinuxBridge" THEN LinuxBridgeStop(G, n)
    ELSE IF backend = "UserSwitch" THEN UserSwitchStop(G, n)
    ELSE IF backend = "KernelSwitch" THEN KernelSwitchStop(G, n)
    ELSE IF backend = "OVSKernelSwitchNew" THEN OVSKernelSwitchNewStop(G, n)
    ELSE IF backend = "OVSKernelSwitch" THEN OVSKernelSwitchStop(G, n)
    ELSE OVSUserSwitchStop(G, n)

\* a caller whose call does not return makes no further call; again, whether
\* the call before this one was stop() of the same node
DoStop(n, dies) ==
    /\ last.err # "blocked"
    /\ sw.numSwitch > 1 - MaxStops
    /\ \E R \in {Stop(Tables, n, dies)} :
        /\ Commit(R)
        /\ last' = [op |-> "stop", a |-> n,
                    again |-> last.op = "stop" /\ last.a = n,
                    err |-> R.err]
    /\ UNCHANGED <<chanVars, readVars>>

\* nodes of every class, linked, started and stopped
NextStop ==
    \/ \E a \in Nodes, b \in Nodes : DoLinkTo(a, b, None, None)
    \/ \E s \in Switches, c \in CtrlSets : last.err # "blocked" /\ DoStart(s, c)
    \/ \E n \in AllNodes, dies \in BOOLEAN : DoStop(n, dies)
SpecStop == InitStart /\ [][NextStop]_vars

\* ------------------------------- unlinkFrom with a switch that is waiting
\* a LinuxBridge with its command channel: links made and taken apart while
\* the caller is in no call on the channel
DoUnlinkIdle(a, b) == pc = "idle" /\ DoUnlinkFrom(a, b)
NextUnlink ==
    \/ NextBusy
    \/ \E a \in Nodes, b \in Nodes : DoUnlinkIdle(a, b)
SpecUnlink == InitBusy /\ [][NextUnlink]_vars

\* ------------------------------------------------ ports given by newPort
\* R, the tables after node1.linkTo( node2 ) called on G, with the ports the
\* two calls of newPort() returned added to the history
NewPorts(G, R, node1, node2) ==
    [R EXCEPT !.allocated =
        [n \in Nodes |-> @[n] \cup (IF n = node1 THEN {NewPort(G, node1)} ELSE {})
                              \cup (IF n = node2 THEN {NewPort(G, node2)} ELSE {})]]
\* linkTo( node2 ) with both ports left to newPort
DoLinkNew(a, b) ==
    /\ IntfCount(Nodes) + 2 <= MaxIntfs
    /\ NewPort(Tables, a) <= MaxPort
    /\ NewPort(Tables, b) <= MaxPort
    /\ \E R \in {NewPorts(Tables, LinkTo(Tables, a, b, None, None), a, b)} :
        /\ Commit(R)
        /\ last' = [op |-> "linkTo", a |-> a, b |-> b, p1 |-> None, p2 |-> None,
                    intf1 |-> IntfName(a, NewPort(Tables, a)),
                    intf2 |-> IntfName(b, NewPort(Tables, b)),
                    err |-> R.err]
    /\ UNCHANGED <<chanVars, readVars>>
\* links made with the ports left to newPort, and deleted in any order
NextAlloc ==
    \/ \E a \in Nodes, b \in Nodes : DoLinkNew(a, b)
    \/ \E a \in Nodes, b \in Nodes \cup {""} : DoUnlinkFrom(a, b)
    \/ \E a \in Nodes, p \in 0..MaxPort : DoDeletePort(a, p)
SpecAlloc == InitLink /\ [][NextAlloc]_vars

\* ------------------------------------------- start() with ports above 9
\* the ports given to addIntf in these runs
WidePorts == {1, 2, 10}
\* addIntf( intfName( p ), p ) of the switch
DoAddIntfAt(a, p) ==
    /\ IntfCount(Nodes) + 1 <= MaxIntfs
    /\ \E R \in {AddIntf(Tables, a, IntfName(a, p), p)} :
        /\ Commit(R)
        /\ last' = [op |-> "addIntf", a |-> a, err |-> R.err]
    /\ UNCHANGED <<chanVars, readVars>>
\* a switch of each class given interfaces at ports of one and two digits,
\* and started
NextWide ==
    \/ \E s \in Switches, p \in WidePorts : DoAddIntfAt(s, p)
    \/ \E s \in Switches, c \in CtrlSets : DoStart(s, c)
SpecWide == InitStart /\ [][NextWide]_vars

\* ---------------------------------------------------------- Node.readline
\* self.readbuf += self.read( 1024 ): the left side is loaded before read()
\* runs, so what is stored is the readbuf of before the call followed by what
\* read() returned, which starts with that same readbuf
ReadlineBuf == readbuf \o ReadResult(ReadMax)
\* readline(): the line before the first newline, or None (lastOp
\* "readlineNone") when the buffer holds no newline
Readline ==
    /\ pc = "idle"
    /\ ~ReadBlocks(ReadMax)
    /\ avail' = AvailAfter(ReadMax)
    /\ recv' = recv \o ReadData(ReadMax)
    /\ err' = "none"
    /\ IF HasVal(ReadlineBuf, LF)
       THEN /\ ret' = Take(ReadlineBuf, FindVal(ReadlineBuf, LF) - 1)
            /\ readbuf' = Drop(ReadlineBuf, FindVal(ReadlineBuf, LF))
            /\ deliv' = deliv \o Take(ReadlineBuf, FindVal(ReadlineBuf, LF))
            /\ lastOp' = "readline"
       ELSE /\ ret' = <<>>
            /\ readbuf' = ReadlineBuf
            /\ deliv' = deliv
            /\ lastOp' = "readlineNone"
    /\ UNCHANGED <<serial, waiting, lastCmd, lastPid, pc, buf, output, pend, disp,
                   retFor, rejAt, asked>>
    /\ UNCHANGED linkVars
\* read( n ) and readline() in any order on a stream that arrives in pieces
NextReadline ==
    \/ \E n \in 1..MaxN : Read(n)
    \/ Readline
    \/ Emit
SpecReadline == InitRead /\ [][NextReadline]_vars

\* --------------------------------- deleteIntfsToNode and its arguments
\* deleteIntfsToNode( b, p ) of a, the arguments of the call kept in last
DoDeleteIntfsAt(a, b, p) ==
    /\ \E R \in {DeleteIntfsToNode(Tables, a, b, p)} :
        /\ Commit(R)
        /\ last' = [op |-> "deleteIntfsToNode", a |-> a, b |-> b, p |-> p,
                    err |-> R.err]
    /\ UNCHANGED <<chanVars, readVars>>
\* links made at given ports or at the ports of newPort, and deleted by peer
\* and port
NextDelete ==
    \/ \E a \in Nodes, b \in Nodes, p1 \in PortArgs, p2 \in PortArgs : DoLinkTo(a, b, p1, p2)
    \/ \E a \in Nodes, b \in Nodes, p \in PortArgs : DoDeleteIntfsAt(a, b, p)
SpecDelete == InitLink /\ [][NextDelete]_vars

\* ------------------------------------- IP(), MAC() of a node that waits
\* n.IP( intf ) or n.MAC( intf ) of the node whose channel this is, called
\* while the caller is in no call on the channel; a call on a waiting node
\* stores nothing
DoAsk(n, intf, table, found) ==
    /\ pc = "idle"
    /\ n = owner
    /\ waiting \/ Stored(AllNodes) < MaxAsk
    /\ \E R \in {Address(Tables, n, intf, table, found)} :
        /\ Commit(R)
        /\ last' = [op |-> table, a |-> n, intf |-> intf, found |-> found,
                    ret |-> Returned(R, n, intf, table), err |-> R.err]
    /\ UNCHANGED <<chanVars, readVars>>
\* a host, a switch or a controller with its channel: commands sent and
\* collected, the host linked to the switch, addresses asked for
NextAsk ==
    \/ serial < MaxLive /\ SendCmd
    \/ HsRead
    \/ WaitOutput
    \/ WaitStep
    \/ Emit
    \/ \E a \in Hosts, b \in Switches : pc = "idle" /\ DoLinkTo(a, b, None, None)
    \/ \E n \in AllNodes, table \in {"ips", "macs"}, found \in BOOLEAN :
          \E intf \in AddressArgs(n) : DoAsk(n, intf, table, found)
SpecAsk == InitExec /\ [][NextAsk]_vars

\* ------------------------------------------- stop() and the devices
\* the operations on the links and on the switch, the devices followed
DoLinkDev(a, b) ==
    /\ IntfCount(Nodes) + 2 <= MaxIntfs
    /\ NewPort(Tables, a) <= MaxPort
    /\ NewPort(Tables, b) <= MaxPort
    /\ \E R \in {LinkTo(Tables, a, b, None, None)} :
        /\ CommitDevs(R)
        /\ last' = [op |-> "linkTo", a |-> a, b |-> b, err |-> R.err]
    /\ UNCHANGED <<chanVars, readVars>>
DoUnlinkDev(a, b) ==
    /\ \E R \in {UnlinkFrom(Tables, a, b)} :
        /\ CommitDevs(R)
        /\ last' = [op |-> "unlinkFrom", a |-> a, b |-> b, err |-> R.err]
    /\ UNCHANGED <<chanVars, readVars>>
DoDeleteIntfDev(a, intf) ==
    /\ \E R \in {DeleteIntf(Tables, a, intf)} :
        /\ CommitDevs(R)
        /\ last' = [op |-> "deleteIntf", a |-> a, err |-> R.err]
    /\ UNCHANGED <<chanVars, readVars>>
DoStartDev(s, controllers) ==
    /\ \E R \in {Start(Tables, s, controllers)} :
        /\ CommitDevs(R)
        /\ last' = [op |-> "start", a |-> s, err |-> R.err]
    /\ UNCHANGED <<chanVars, readVars>>
DoStopDev(s) ==
    /\ sw.numSwitch > 1 - MaxStops
    /\ \E R \in {Stop(Tables, s, FALSE)} :
        /\ CommitDevs(R)
        /\ last' = [op |-> "stop", a |-> s, err |-> R.err]
    /\ UNCHANGED <<chanVars, readVars>>
\* a switch of each class and a host: linked, unlinked, the switch started
\* and stopped
NextDev ==
    \/ \E a \in Nodes, b \in Nodes : DoLinkDev(a, b)
    \/ \E a \in Nodes, b \in Nodes \cup {""} : DoUnlinkDev(a, b)
    \/ \E a \in Nodes : \E intf \in DOMAIN ports[a] : DoDeleteIntfDev(a, intf)
    \/ \E s \in Switches, c \in CtrlSets : DoStartDev(s, c)
    \/ \E s \in Switches : DoStopDev(s)
SpecDev == InitStart /\ [][NextDev]_vars

\* --------------------------------------- execed over all the operations
\* Controller.start: pathCheck, 'cd' when cdir is given, the controller
\* command in the background, self.execed = False
ControllerStart(G, n, cdir) ==
    LET G1 == IF cdir THEN CmdDo(G, n, "cd", G.sw) ELSE G
    IN NotExeced(CmdDo(G1, n, "controller", G1.sw), n)
\* start() of a controller's class: RemoteController.start does nothing
DoControllerStart(n, cdir) ==
    /\ \E R \in {IF n \in RemoteControllers THEN Tables
                 ELSE ControllerStart(Tables, n, cdir)} :
        /\ Commit(R)
        /\ last' = [op |-> "start", a |-> n, err |-> R.err]
    /\ UNCHANGED <<chanVars, readVars>>
\* the caller is in no call, and no call of its has failed to return
Free == pc = "idle" /\ last.err # "blocked"
\* a switch of each class with its command channel, a host and the
\* controllers: links made, switch and controllers started, restarted and
\* stopped while no command has been sent, and sendCmd on the switch once its
\* start() has been called
InitOps ==
    InitChan /\ InitReadHist /\ backend \in Backends /\ InitTables
             /\ owner \in Switches
NextOps ==
    \/ serial < MaxLive /\ Free /\ last.op = "start" /\ last.a = owner /\ ClassSendCmd
    \/ HsRead
    \/ Emit
    \/ \E a \in Hosts, b \in Switches :
          Free /\ serial = 0 /\ DoLinkTo(a, b, None, None)
    \/ \E s \in Switches, c \in CtrlSets : Free /\ serial = 0 /\ DoStart(s, c)
    \/ \E s \in Switches : Free /\ serial = 0 /\ DoRestart(s)
    \/ \E n \in Controllers \cup RemoteControllers, cdir \in BOOLEAN :
          Free /\ serial = 0 /\ DoControllerStart(n, cdir)
    \/ \E n \in AllNodes, dies \in BOOLEAN : Free /\ serial = 0 /\ DoStop(n, dies)
SpecOps == InitOps /\ [][NextOps]_vars

\* ------------------------------------------------------------- claims
IsOut(b) == b.t = "out"
\* the bytes of a text that a command printed
OutOf(s) == Vals(SelectSeq(s, IsOut))
NoDel(o) == \A i \in DOMAIN o : o[i] # DEL
\* a step that is a call of sendCmd
SendCmdStep ==
    /\ pc = "idle"
    /\ lastOp' = "sendCmd"
    /\ <<lastOp, err, ret, rejAt, serial, pc>>' # <<lastOp, err, ret, rejAt, serial, pc>>
\* waitOutput has returned what it collected for command retFor
Collected == pc = "idle" /\ lastOp = "waitOutput" /\ retFor > 0

\* C1: sendCmd on a node whose waiting flag is true fails with the assertion
\* error, writes nothing and leaves serial, readbuf, lastCmd, lastPid and waiting
\* as they were; when waiting is false sendCmd goes ahead, and the waitOutput of
\* a command sent after a rejection returns that command's output (its output
\* holding no sentinel byte).
C1_RejectedThenRetry ==
    /\ [][SendCmdStep =>
            IF waiting
            THEN /\ err' = "AssertionError"
                 /\ UNCHANGED <<serial, readbuf, lastCmd, lastPid, waiting, pend, avail>>
            ELSE /\ err' = "none"
                 /\ serial' = serial + 1
                 /\ Len(pend') > Len(pend)]_vars
    /\ []((Collected /\ rejAt > 0 /\ retFor > rejAt /\ NoDel(disp.out))
            => OutOf(ret) = disp.out)
C1_Witness ==
    /\ Collected
    /\ rejAt = 1
    /\ retFor = 2
    /\ disp.out = <<97>>
    /\ OutOf(ret) = <<97>>

\* C2: for commands sent and collected one after the other (sendCmd, waitOutput,
\* sendCmd, waitOutput), however the shell's bytes arrive and are cut into
\* chunks, waitOutput returns bytes of its own command's segment of the stream
\* only (none of another command's, none of a handshake, never the sentinel),
\* and among them exactly the bytes its command printed (the output holding no
\* sentinel byte).
C2_OwnOutput ==
    (Collected /\ NoDel(disp.out)) =>
        /\ \A i \in DOMAIN ret : ret[i].k = retFor /\ ret[i].t \in {"echo", "pid", "out"}
        /\ OutOf(ret) = disp.out
        /\ disp.k = retFor
C2_Witness ==
    /\ Collected
    /\ retFor = 2
    /\ disp.prev
    /\ disp.out = <<97>>
    /\ lastPid = 4
    /\ OutOf(ret) = <<97>>

C4_ReadExact ==
    /\ [][(lastOp' = "read" /\ pend' = pend) =>
            /\ Len(ret') <= asked'
            /\ Take(ret', Len(readbuf)) = Take(readbuf, asked')
            /\ ret' \o readbuf' \o avail' = readbuf \o avail]_vars
    /\ [](deliv \o readbuf = recv)
    /\ [](\A i \in DOMAIN recv : recv[i].k = i)
C4_Witness ==
    /\ lastOp = "read"
    /\ asked = 1
    /\ Len(ret) = 1
    /\ Len(readbuf) = 1
    /\ Len(recv) = 3
    /\ pend = <<>>
    /\ avail = <<>>

\* ---------------------------------------------------- claims on the tables
Done(op) == last.op = op /\ last.err = "none"
\* every entry of n's connection table has its mirror on the peer
Mirrored(n) ==
    \A i \in DOMAIN connection[n] :
        LET m == connection[n][i][1]
            j == connection[n][i][2]
        IN j \in DOMAIN connection[m] /\ connection[m][j] = <<n, i>>
\* n's two port tables are inverses of each other
Inverse(n) ==
    /\ \A p \in DOMAIN intfs[n] :
           intfs[n][p] \in DOMAIN ports[n] /\ ports[n][intfs[n][p]] = p
    /\ \A i \in DOMAIN ports[n] :
           ports[n][i] \in DOMAIN intfs[n] /\ intfs[n][ports[n][i]] = i
\* the port numbers n has assigned, in either table
Assigned(n) == DOMAIN intfs[n] \cup Values(ports[n])

\* C5: after a linkTo between A and B that returned, A's connection table maps
\* A's interface of the link to (B, B's interface) and B's maps B's interface
\* to (A, A's interface); both names are the canonical ones of the ports used
\* (the ports given, where they were given) and both are registered in their
\* node's two port tables.
C5_LinkToPost ==
    Done("linkTo") =>
        LET a == last.a
            b == last.b
            i1 == last.intf1
            i2 == last.intf2
        IN /\ i1 \in DOMAIN connection[a] /\ connection[a][i1] = <<b, i2>>
           /\ i2 \in DOMAIN connection[b] /\ connection[b][i2] = <<a, i1>>
           /\ last.p1 # None => i1 = IntfName(a, last.p1)
           /\ last.p2 # None => i2 = IntfName(b, last.p2)
           /\ i1 \in DOMAIN ports[a] /\ i1 = IntfName(a, ports[a][i1])
           /\ ports[a][i1] \in DOMAIN intfs[a] /\ intfs[a][ports[a][i1]] = i1
           /\ i2 \in DOMAIN ports[b] /\ i2 = IntfName(b, ports[b][i2])
           /\ ports[b][i2] \in DOMAIN intfs[b] /\ intfs[b][ports[b][i2]] = i2
\* the host, which has an interface already, linked to the switch, the ports
\* left to newPort
C5_Witness ==
    /\ Done("linkTo") /\ last.a = "h1" /\ last.b = "s1"
    /\ last.p1 = None /\ last.p2 = None
    /\ last.intf1 = IntfName("h1", 1) /\ last.intf2 = IntfName("s1", 1)
    /\ connection["h1"][IntfName("h1", 1)] = <<"s1", IntfName("s1", 1)>>
    /\ connection["s1"][IntfName("s1", 1)] = <<"h1", IntfName("h1", 1)>>
    /\ Cardinality(DOMAIN connection["h1"]) = 2

\* C6: in every state reached by linkTo, deleteIntf, deletePort,
\* deleteIntfsToNode and unlinkFrom, a connection entry i -> (B, j) of A has
\* the entry j -> (A, i) in B's table.
C6_Symmetric == \A n \in Nodes : Mirrored(n)

\* C7: after every operation on the port tables, Host.addvlan included,
\* intfs[p] = i exactly when ports[i] = p.
C7_Inverse == \A n \in Nodes : Inverse(n)

\* C8: the port newPort would return is above every port the node has
\* assigned, is one above the highest of them, and is the node's port base
\* (0 for a plain node, 1 for a switch) when it has none.
C8_NewPortFresh ==
    \A n \in Nodes :
        /\ \A p \in Assigned(n) : NewPort(Tables, n) > p
        /\ Assigned(n) # {} => NewPort(Tables, n) - 1 \in Assigned(n)
        /\ Assigned(n) = {} => NewPort(Tables, n) = PortBase(n)
\* the host holds port 1 alone, its port 0 deleted again: the next is 2, and
\* the switch, which has no port, would get port 1
C8_Witness ==
    /\ last.op = "deletePort" /\ last.err = "none"
    /\ Assigned("h1") = {1} /\ NewPort(Tables, "h1") = 2
    /\ Assigned("s1") = {} /\ NewPort(Tables, "s1") = 1

\* C9: after A.unlinkFrom(B) neither connection table holds an entry to the
\* other node and the interfaces of those links are in no port table of the
\* two; after A.unlinkFrom() A's connection table is empty and no other
\* node's table holds an entry to A.
C9_UnlinkPost ==
    Done("unlinkFrom") =>
        IF last.b # ""
        THEN /\ LinksTo(last.a, last.b) = {} /\ LinksTo(last.b, last.a) = {}
             /\ \A e \in last.gone :
                    /\ e[2] \notin DOMAIN ports[e[1]]
                    /\ e[2] \notin Values(intfs[e[1]])
        ELSE /\ DOMAIN connection[last.a] = {}
             /\ \A n \in Nodes : LinksTo(n, last.a) = {}
\* the part of C9 with a peer given
C9_WithPeer == (Done("unlinkFrom") /\ last.b # "") => C9_UnlinkPost

\* C10: start() of a switch of any class returns without an error only when
\* the switch's port numbers are its port base, the next number, and so on
\* without a gap; with any other set of ports it fails.
Contiguous(n) ==
    Assigned(n) = PortBase(n) .. (PortBase(n) + Cardinality(Assigned(n)) - 1)
C10_StartOnlyContiguous == Done("start") => Contiguous(last.a)

\* C20: a linkTo that fails leaves the intfs, ports and connection tables of
\* both nodes as they were
C20_LinkToAtomic ==
    [][(last'.op = "linkTo" /\ last'.err # "none")
       => UNCHANGED <<intfs, ports, connection>>]_vars

\* the processes were stopped and then started, in that order
Restarted(r) ==
    \E i \in DOMAIN r, j \in DOMAIN r :
        /\ i < j
        /\ r[i] = <<"cmd", "kill %ofprotocol">>
        /\ r[j] = <<"cmd", "ofprotocol">>
\* C19: a restart() of a UserSwitch, called itself or by the addIntf of a
\* linkTo, does nothing before the first start( C ); after it, it stops the
\* switch's processes and starts them again with the last C, whatever C is
C19_RestartReapplies ==
    [][(/\ last'.op = "restart" \/ (last'.op = "linkTo" /\ "s1" \in {last'.a, last'.b})
        /\ last'.err = "none")
       => IF sw.saved = {}
          THEN ~Restarted(ran') /\ sw'.procs = sw.procs /\ sw'.saved = sw.saved
          ELSE Restarted(ran') /\ sw'.procs = sw.saved /\ sw'.saved = sw.saved]_vars

\* C18: after a start() of the switch that has returned, an attach (linkTo)
\* or a detach (deletePort) that returns leaves the members of the switch's
\* forwarding object equal to the interfaces of its port table
C18_MembersFollowTable ==
    [][(/\ last.op = "start" /\ last.err = "none"
        /\ last'.op \in {"linkTo", "deletePort"} /\ last'.err = "none")
       => sw'.members = DOMAIN ports'["s1"]]_vars

\* C17: IP() and MAC() of a node of any class, for its default interface or
\* a named one, when ifconfig shows no address: the call raises nothing and
\* returns None, or the default IP of a controller
C17_AddressAbsent ==
    (last.op \in {"ips", "macs"} /\ ~last.found) =>
        (last.err = "none" /\ last.ret \in {"None", DefaultIP})

\* C16: of a node that has interfaces, defaultIntf gives the interface at the
\* lowest port when the node is no switch, at the highest port when it is one
C16_DefaultIntf ==
    \A n \in Nodes : HasIntf(Tables, n) =>
        \E p \in DOMAIN intfs[n] :
            /\ ClassDefaultIntf(Tables, n) = intfs[n][p]
            /\ \A q \in DOMAIN intfs[n] : IF n \in Switches THEN q <= p ELSE p <= q
C16_Witness ==
    /\ DOMAIN intfs["s1"] = {0, 1}
    /\ ClassDefaultIntf(Tables, "s1") = IntfName("s1", 1)
    /\ last.op = "linkTo"

\* C15: with a shell that prints the output and then the sentinel, every
\* sendCmd and waitOutput under way returns; what a waitOutput without
\* pattern returns for its command holds the command's output (the output
\* holding no sentinel byte) and waiting is false then; a waitOutput with a
\* pattern goes on while waiting is true and the text so far does not match,
\* and returns with waiting false or with a text that matches
C15_WaitOutputReturns ==
    /\ (pc # "idle") ~> (pc = "idle")
    /\ [](Collected => (~waiting /\ (NoDel(disp.out) => OutOf(ret) = disp.out)))
    /\ [](pc = "wop" => (waiting /\ ~Matches(output)))
    /\ []((pc = "idle" /\ lastOp = "waitOutputPattern") => (~waiting \/ Matches(ret)))
C15_Witness ==
    /\ Collected
    /\ ~waiting
    /\ disp.k = MaxLive
    /\ disp.out # <<>>
    /\ OutOf(ret) = disp.out

\* C14: a monitor called with a timeout returns when the timeout is over,
\* also when the shell has nothing more to print: past its poll it is not
\* held by a read that blocks
C14_TimeoutReturns ==
    (pc = "mon" /\ pend = <<>>) => ~ReadBlocks(ReadMax)

\* C13: a sendCmd called on a node whose execed is true fails with an error
\* the caller sees, and leaves the call over with nothing written
C13_ExecedRejects ==
    (execed[owner] /\ lastOp = "sendCmd") => (err # "none" /\ pc = "idle")

\* C12: stop() called a second time right after stop() of the same node
\* ends without an exception and without blocking on the node's channel
C12_StopTwice ==
    (last.op = "stop" /\ last.again) => last.err = "none"

\* C11: when start() rejects the port set of the switch with the exception of
\* its range test, that call has until then dispatched no command to the node
\* and run no external tool, and so has neither made nor deleted a datapath
C11_RejectBeforeEffects ==
    (last.op = "start" /\ last.err = "Exception") => ran = <<>>

\* every connection entry has its mirror and its interface in the port table
Consistent ==
    \A n \in Nodes : Mirrored(n) /\ DOMAIN connection[n] \subseteq DOMAIN ports[n]
\* C21: an A.unlinkFrom( B ) called with tables that are consistent, whether
\* it returns or fails, leaves of every link both ends in the connection and
\* port tables or neither end
C21_UnlinkBothOrNeither ==
    [][(last'.op = "unlinkFrom" /\ Consistent)
       => \A n \in Nodes : \A i \in DOMAIN connection[n] :
            LET m == connection[n][i][1]
                j == connection[n][i][2]
            IN /\ i \in DOMAIN connection'[n] <=> j \in DOMAIN connection'[m]
               /\ i \in DOMAIN ports'[n] <=> j \in DOMAIN ports'[m]]_vars

\* the nodes fdToNode gives, over every descriptor
Registered == {FdToNode(fd) : fd \in DOMAIN outToNode \cup DOMAIN inToNode}
\* C22: every node is in the registry of descriptors from its construction,
\* and a node whose stop() has run terminate() and returned is no longer
\* among the nodes fdToNode gives
C22_RegistryFollowsNodes ==
    /\ last.op = "init" => Registered = AllNodes
    /\ (last.op = "stop" /\ last.err = "none" /\ last.a \in Hosts \cup Controllers)
         => last.a \notin Registered

\* a step that is a call of monitor() by the caller itself
MonitorStep == pc = "idle" /\ lastOp' = "monitor" /\ pend' = pend /\ avail' # avail
\* C23: monitor(), of the chunk it read (the PID marker taken out), returns
\* the chunk without any sentinel byte and sets waiting false when the chunk
\* holds the sentinel; it returns the chunk as it is and leaves waiting as it
\* was when the chunk holds none
C23_SentinelStripped ==
    [][MonitorStep =>
         IF HasVal(MonStripped(ReadResult(ReadMax)), DEL)
         THEN ~waiting' /\ ret' = Without(MonStripped(ReadResult(ReadMax)), DEL)
         ELSE waiting' = waiting /\ ret' = MonStripped(ReadResult(ReadMax))]_vars

\* C24: when waitOutput has returned the output of a command run under
\* mnexec -p, whose stream holds one PID marker, lastPid is the number of the
\* marker and the text returned holds no byte of the marker, however the
\* stream was cut into chunks
C24_PidExtracted ==
    (Collected /\ lastCmd.mnexec) =>
        /\ lastPid = PidText[1] - 48
        /\ \A i \in DOMAIN ret : ret[i].t # "pid"

\* C25: the port newPort returns to a linkTo is above every port newPort has
\* returned before on that node, whatever was deleted in between: the ports
\* it returns never go down and none is returned twice
C25_NewPortMonotonic ==
    [][(last'.op = "linkTo" /\ last'.err = "none")
       => /\ \A p \in allocated[last'.a] : p < IntfToPort(last'.intf1)
          /\ \A p \in allocated[last'.b] : p < IntfToPort(last'.intf2)]_vars

\* C26: when start() of a switch of any class has returned, every interface
\* of the switch is a member of the forwarding object, and start() handed
\* them over in ascending order of their ports
C26_StartRegistersAll ==
    Done("start") =>
        /\ sw.members = Values(intfs[last.a])
        /\ \A o \in StartOrders(Tables, last.a) :
              /\ {o[k] : k \in DOMAIN o} = Values(intfs[last.a])
              /\ \A x \in DOMAIN o, y \in DOMAIN o :
                    x < y => ports[last.a][o[x]] < ports[last.a][o[y]]

\* C27: when stop() of the one OVSKernelSwitchNew switch there is has
\* returned, after one call or after several, numSwitch is 0, the number of
\* the switches constructed and not stopped
C27_NumSwitchCounts ==
    (backend = "OVSKernelSwitchNew" /\ Done("stop") /\ last.a \in Switches)
        => sw.numSwitch = 0

\* a step that is a call of readline()
ReadlineStep ==
    pc = "idle" /\ lastOp' \in {"readline", "readlineNone"} /\ pend' = pend /\ avail' # avail
\* C28: with read( n ) and readline() called in any order, the lines returned
\* (each with its newline) and the results of read, in the order of the calls,
\* followed by readbuf are the bytes received so far; a readline() that finds
\* no newline returns None and keeps the bytes in readbuf; readbuf holds at
\* most 1024 bytes
C28_ReadlineExact ==
    /\ [](deliv \o readbuf = recv)
    /\ [][(ReadlineStep /\ lastOp' = "readlineNone")
            => readbuf' = readbuf \o ReadData(ReadMax)]_vars
    /\ [](Len(readbuf) <= ReadMax)

\* a dict without the keys outside S
Restrict(d, S) == [x \in DOMAIN d \cap S |-> d[x]]
\* the interfaces of a that A.deleteIntfsToNode( b, p ) is to delete: those
\* whose link ends at b's interface of port p, or at b when no port is given
ToDelete(a, b, p) ==
    IF p # None
    THEN {i \in DOMAIN connection[a] : connection[a][i] = <<b, IntfName(b, p)>>}
    ELSE LinksTo(a, b)
\* C29: a deleteIntfsToNode( dstNode, dstPort ) that returns has deleted from
\* the node's tables the interfaces linked to dstNode's interface at dstPort,
\* for every dstPort from 0 on, or all those linked to dstNode when no port is
\* given, and has left every other entry of every table as it was
C29_DeletesExactly ==
    [][(last'.op = "deleteIntfsToNode" /\ last'.err = "none")
       => LET a == last'.a
              gone == ToDelete(last'.a, last'.b, last'.p)
          IN /\ connection' = [connection EXCEPT ![a] = Restrict(@, DOMAIN @ \ gone)]
             /\ ports' = [ports EXCEPT ![a] = Restrict(@, DOMAIN @ \ gone)]
             /\ intfs' = [intfs EXCEPT
                            ![a] = Restrict(@, DOMAIN @ \ {IntfToPort(i) : i \in gone})]]_vars

\* a step that is a call of IP() or MAC(): no step of a call on the channel
AddressStep ==
    /\ last'.op \in {"ips", "macs"}
    /\ UNCHANGED <<lastOp, err, ret, rejAt, pend, avail, pc, retFor>>
\* C30: IP() and MAC() of a node that is waiting raise nothing, dispatch no
\* command, leave waiting, serial, readbuf and the node's ips and macs as
\* they were and return what ips or macs holds for the interface, None when
\* nothing (the default IP of a controller in its place); ips and macs change
\* only in a call on a node that is not waiting, which has dispatched its query
C30_AddressWhileWaiting ==
    /\ [][(AddressStep /\ waiting)
            => /\ last'.err = "none"
               /\ ran' = <<>>
               /\ UNCHANGED <<waiting, serial, readbuf, ips, macs>>
               /\ last'.ret \in
                    {Get(Tables[last'.op][last'.a], Resolve(Tables, last'.a, last'.intf))}
                    \cup (IF last'.a \in Controllers /\ last'.op = "ips"
                          THEN {DefaultIP} ELSE {})]_vars
    /\ [][(ips' # ips \/ macs' # macs)
            => /\ AddressStep
               /\ ~waiting
               /\ ran' = <<<<"cmd", "ifconfig">>>>]_vars

\* the device that the entry intf of a node's tables names is there, in the
\* root namespace or in another
Exists(intf) == \E d \in devs : d[2] = intf
\* C31: a stop() of a switch that returns leaves no device of any interface
\* in the switch's intfs, and leaves intfs, ports and connection of every
\* node as they were; an entry leaves a table in deleteIntf and unlinkFrom
\* only
C31_StopKeepsTables ==
    /\ [][(last'.op = "stop" /\ last'.err = "none")
          => /\ UNCHANGED <<intfs, ports, connection>>
             /\ \A i \in Values(intfs[last'.a]) : ~Exists(i)']_vars
    /\ [][(\E n \in Nodes :
              \/ DOMAIN intfs[n] \ DOMAIN intfs'[n] # {}
              \/ DOMAIN ports[n] \ DOMAIN ports'[n] # {}
              \/ DOMAIN connection[n] \ DOMAIN connection'[n] # {})
          => last'.op \in {"deleteIntf", "unlinkFrom"}]_vars

\* C32: over construction, start, stop, restart, sendCmd and the link
\* operations execed of every node stays false, and a sendCmd is never turned
\* away for it: it fails its assertion on a node that is waiting and is
\* dispatched otherwise, after start() as before
C32_ExecedNeverSet ==
    /\ [](\A n \in AllNodes : ~execed[n])
    /\ [][SendCmdStep
          => IF waiting THEN err' = "AssertionError"
             ELSE serial' = serial + 1 /\ pc' = "hs1" /\ err' = "none"]_vars
\* the switch, its start() having returned, is sent a command, which is
\* dispatched
C32_Witness ==
    /\ last.op = "start" /\ last.err = "none" /\ last.a = owner
    /\ lastOp = "sendCmd" /\ pc = "hs1" /\ ~execed[owner]
====
